---- MODULE Spec2Model ----
(***************************************************************************)
(* Model of blenderfds' FDSNamelist (src/types/fds_namelist.py): the       *)
(* classification of the entries, the 80-column formatter to_fds(), the    *)
(* lookup get_fds_param() and the regex scanner behind from_fds().         *)
(*                                                                         *)
(* A Python str is a sequence of one-character strings; a text holding     *)
(* line breaks is the sequence of its lines (what str.split("\n") gives),  *)
(* so the empty text is the one-line text << <<>> >>.                      *)
(***************************************************************************)
EXTENDS Integers, Sequences, FiniteSets, TLC

VARIABLES
    heap,     \* the FDSNamelist objects, by identity: the root is heap[Root]
    calls,    \* number of to_fds() calls made on the root so far
    op,       \* the last operation the caller ran
    ret,      \* what that operation returned (or the exception it raised)
    imported  \* fds_params of the namelist the last from_fds() filled

vars == <<heap, calls, op, ret, imported>>

\* ------------------------------------------------------------------ bounds

MaxEntries == 2
MaxCalls == 2

\* ----------------------------------------------------------------- strings

MAXLEN == 80

RECURSIVE Cat(_)
\* "".join(ss)
Cat(ss) == IF ss = <<>> THEN <<>> ELSE Head(ss) \o Cat(Tail(ss))

RECURSIVE Join(_)
\* ",".join(vs)
Join(vs) ==
    IF vs = <<>> THEN <<>>
    ELSE IF Len(vs) = 1 THEN vs[1]
    ELSE vs[1] \o <<",">> \o Join(Tail(vs))

Rep(c, n) == [i \in 1..n |-> c]

Indent6 == Rep(" ", 6)
Indent8 == Rep(" ", 8)

\* ------------------------------------------------------------ entry kinds

None == [kind |-> "none"]

\* An FDSParam as FDSNamelist uses it: its fds_label, its msgs and the list
\* of str that _get_formatted_values() returns for it.
Param(label, vs, msgs) ==
    [kind |-> "param", fds_label |-> label, vs |-> vs, msgs |-> msgs]

\* A nested FDSNamelist entry is a reference to the object heap[id].
Ref(id) == [kind |-> "namelist", id |-> id]

Many(items, msgs) == [kind |-> "many", items |-> items, msgs |-> msgs]

Multi(groups, msgs) == [kind |-> "multi", groups |-> groups, msgs |-> msgs]

\* An entry of any other type.
Other == [kind |-> "other"]

Namelist(label, params, msgs) ==
    [fds_label |-> label, fds_params |-> params, msgs |-> msgs,
     invariant_ps |-> <<>>, additional_ns |-> <<>>, multi_ps |-> None]

\* bool(x) of what _multi_ps can hold: None is false, a list is true when
\* it is not empty.
Truthy(m) == m.kind = "multi" /\ Len(m.groups) > 0

\* --------------------------------------------------------- classification

RECURSIVE ClassifyAll(_, _, _)
RECURSIVE Classify(_, _, _)

\* One call of _classify_fds_param(p) on the namelist whose working state
\* is c; c.err is the exception raised, if any (nothing runs after it).
Classify(h, c, p) ==
    IF c.err # "" THEN c
    ELSE CASE p.kind = "none" -> c
           [] p.kind = "param" ->
                [c EXCEPT !.inv = Append(@, p), !.msgs = @ \o p.msgs]
           [] p.kind = "namelist" ->
                [c EXCEPT !.add = Append(@, p.id), !.msgs = @ \o h[p.id].msgs]
           [] p.kind = "many" ->
                LET c2 == ClassifyAll(h, c, p.items)
                IN  IF c2.err # "" THEN c2
                    ELSE [c2 EXCEPT !.msgs = @ \o p.msgs]
           [] p.kind = "multi" ->
                IF Truthy(c.multi) THEN [c EXCEPT !.err = "Exception"]
                ELSE [c EXCEPT !.multi = p, !.msgs = @ \o p.msgs]
           [] OTHER -> [c EXCEPT !.err = "ValueError"]

\* for p in ps: self._classify_fds_param(p)
ClassifyAll(h, c, ps) ==
    IF ps = <<>> THEN c
    ELSE ClassifyAll(h, Classify(h, c, Head(ps)), Tail(ps))

\* --------------------------------------------------------------- records

\* [p.fds_label for p in self._multi_ps[0]]
MultiLabels(m) == {m.groups[1][i].fds_label : i \in 1..Len(m.groups[1])}

\* A bug Shadow could have: no parameter is taken out
Shadow_KeepsAll(inv, m) == inv

\* [p for p in self._invariant_ps if p.fds_label not in multi_ps_fds_labels]
Shadow(inv, m) == SelectSeq(inv, LAMBDA p : p.fds_label \notin MultiLabels(m))

\* nl = invariant params, then the params of one multi group
OneNl(inv, multi_p) == inv \o multi_p

\* nls: the list of parameter lists, one per record
Nls(inv, m) ==
    IF Truthy(m)
    THEN [i \in 1..Len(m.groups) |-> OneNl(Shadow(inv, m), m.groups[i])]
    ELSE <<inv>>

\* for v in vs: ... of the splitting branch; st.line ends with ","
RECURSIVE SplitValues(_, _)
SplitValues(st, vs) ==
    IF vs = <<>> THEN st
    ELSE LET v == Head(vs)
             st2 == IF Len(st.line) + Len(v) + 1 <= MAXLEN
                    THEN [st EXCEPT !.line = @ \o v \o <<",">>]
                    ELSE [st EXCEPT !.lines = Append(@, st.line),
                                    !.line = Indent8 \o v \o <<",">>]
         IN  SplitValues(st2, Tail(vs))

\* line = line[:-1]
DropLast(s) == IF s = <<>> THEN s ELSE SubSeq(s, 1, Len(s) - 1)

\* A valueless parameter: the branch "if not vs".
EmitFlag(st, label) ==
    IF ~st.newline /\ Len(st.line) + 1 + Len(label) <= MAXLEN
    THEN [st EXCEPT !.line = @ \o <<" ">> \o label, !.newline = FALSE]
    ELSE [st EXCEPT !.lines = Append(@, st.line), !.line = Indent6 \o label]

\* A parameter with formatted values: the branch "else".
EmitValued(st, label, vs) ==
    LET v == Join(vs)
        l0 == Indent6 \o label \o <<"=">>
    IN  IF ~st.newline /\ Len(st.line) + 1 + Len(label) + 1 + Len(v) <= MAXLEN
        THEN [st EXCEPT !.line = @ \o <<" ">> \o label \o <<"=">> \o v,
                        !.newline = FALSE]
        ELSE IF Len(l0) + Len(v) <= MAXLEN
        THEN [st EXCEPT !.lines = Append(@, st.line), !.line = l0 \o v]
        ELSE LET s == SplitValues([lines |-> Append(st.lines, st.line),
                                   line |-> l0, newline |-> TRUE], vs)
             IN  [s EXCEPT !.line = DropLast(@)]

\* The body of "for p in nl" for one parameter.
EmitParam(st, p) ==
    IF p.fds_label = <<>> THEN st
    ELSE IF p.vs = <<>> THEN EmitFlag(st, p.fds_label)
    ELSE EmitValued(st, p.fds_label, p.vs)

RECURSIVE EmitAll(_, _)
EmitAll(st, nl) ==
    IF nl = <<>> THEN st ELSE EmitAll(EmitParam(st, Head(nl)), Tail(nl))

\* The state of the record loop before its first parameter.
RecordStart(label) ==
    [lines |-> <<>>, line |-> <<"&">> \o label, newline |-> FALSE]

\* The lines of one record "&LABEL ... /".
FormatRecord(label, nl) ==
    LET st == EmitAll(RecordStart(label), nl)
    IN  Append(st.lines, st.line \o <<" ", "/">>)

\* for nl in nls: ...
FormatRecords(label, nls) ==
    Cat([i \in 1..Len(nls) |-> FormatRecord(label, nls[i])])

\* list(f"! {m}" for m in self.msgs if m)
MessageLines(msgs) ==
    LET kept == SelectSeq(msgs, LAMBDA m : m # <<>>)
    IN  [i \in 1..Len(kept) |-> <<"!", " ">> \o kept[i]]

\* ----------------------------------------------------------------- to_fds

RECURSIVE ToFdsOf(_, _)
RECURSIVE ToFdsEach(_, _)

\* lines.extend(n.to_fds(context) for n in self._additional_ns): r carries
\* the heap, the lines so far and the exception raised, if any.
ToFdsEach(r, ns) ==
    IF ns = <<>> \/ r.err # "" THEN r
    ELSE LET one == ToFdsOf(r.h, Head(ns))
         IN  ToFdsEach([h |-> one.h, text |-> r.text \o one.text,
                        err |-> one.err], Tail(ns))

\* One call of heap[id].to_fds(): the heap after it, the text returned and
\* the exception raised instead, if any.
ToFdsOf(h, id) ==
    LET self == h[id]
        c == ClassifyAll(h, [inv |-> <<>>, add |-> <<>>, multi |-> None,
                             msgs |-> self.msgs, err |-> ""], self.fds_params)
        inv == IF Truthy(c.multi) THEN Shadow(c.inv, c.multi) ELSE c.inv
        h1 == [h EXCEPT ![id] = [@ EXCEPT !.msgs = c.msgs,
                                          !.invariant_ps = IF c.err = "" THEN inv ELSE c.inv,
                                          !.additional_ns = c.add,
                                          !.multi_ps = c.multi]]
    IN  IF c.err # "" THEN [h |-> h1, text |-> <<>>, err |-> c.err]
        ELSE LET r == ToFdsEach([h |-> h1, text |-> MessageLines(c.msgs),
                                 err |-> ""], c.add)
                 own == IF self.fds_label # <<>>
                        THEN FormatRecords(self.fds_label, Nls(c.inv, c.multi))
                        ELSE <<>>
                 lines == r.text \o own
             IN  IF r.err # "" THEN [h |-> r.h, text |-> <<>>, err |-> r.err]
                 ELSE [h |-> r.h,
                       text |-> IF lines = <<>> THEN << <<>> >> ELSE lines,
                       err |-> ""]

\* ---------------------------------------------------------- get_fds_param

\* A bug Remove could have: every element equal to x is taken out
Remove_All(ps, x) == SelectSeq(ps, LAMBDA e : e # x)

\* list.remove(x): the list without its first element equal to x
RECURSIVE Remove(_, _)
Remove(ps, x) ==
    IF ps = <<>> THEN ps
    ELSE IF Head(ps) = x THEN Tail(ps)
    ELSE <<Head(ps)>> \o Remove(Tail(ps), x)

\* "not fds_param": None and the empty lists are false
Falsy(e) ==
    \/ e.kind = "none"
    \/ e.kind = "many" /\ e.items = <<>>
    \/ e.kind = "multi" /\ e.groups = <<>>

\* Whether the entry has an attribute fds_label at all
HasLabel(e) == e.kind \in {"param", "namelist"}

\* fds_param.fds_label
LabelOf(h, e) == IF e.kind = "namelist" THEN h[e.id].fds_label ELSE e.fds_label

\* The loop of get_fds_param over ps[i..]: the index of the entry it stops
\* at, 0 when it runs off the end, -1 when reading fds_label raises
\* AttributeError. A falsy fds_label argument matches every true entry.
RECURSIVE FindParam(_, _, _, _)
FindParam(h, ps, fds_label, i) ==
    IF i > Len(ps) THEN 0
    ELSE IF Falsy(ps[i]) THEN FindParam(h, ps, fds_label, i + 1)
    ELSE IF fds_label = <<>> THEN i
    ELSE IF ~HasLabel(ps[i]) THEN -1
    ELSE IF LabelOf(h, ps[i]) # fds_label THEN FindParam(h, ps, fds_label, i + 1)
    ELSE i

\* get_fds_param(fds_label, remove) on the entry list ps: the value
\* returned (or the exception) and the list left behind.
GetFdsParamOf(h, ps, fds_label, remove) ==
    LET i == FindParam(h, ps, fds_label, 1)
    IN  IF i = 0 THEN [ret |-> None, ps |-> ps]
        ELSE IF i = -1
        THEN [ret |-> [kind |-> "raise", err |-> "AttributeError"], ps |-> ps]
        ELSE [ret |-> ps[i], ps |-> IF remove THEN Remove(ps, ps[i]) ELSE ps]

\* ---------------------------------------------------------------- from_fds

Letters ==
    {"A", "B", "C", "D", "E", "F", "G", "H", "I", "J", "K", "L", "M",
     "N", "O", "P", "Q", "R", "S", "T", "U", "V", "W", "X", "Y", "Z",
     "a", "b", "c", "d", "e", "f", "g", "h", "i", "j", "k", "l", "m",
     "n", "o", "p", "q", "r", "s", "t", "u", "v", "w", "x", "y", "z"}

Digits == {"0", "1", "2", "3", "4", "5", "6", "7", "8", "9"}

\* [A-Z0-9_\(\):,] under re.IGNORECASE
LabelChars == Letters \cup Digits \cup {"_", "(", ")", ":", ","}

\* [,\s\t]
Seps == {",", " ", "\t", "\n"}

\* str.strip() and \s
Blank == {" ", "\t", "\n"}

RECURSIVE JoinSp(_)
\* " ".join(lines)
JoinSp(lines) ==
    IF lines = <<>> THEN <<>>
    ELSE IF Len(lines) = 1 THEN lines[1]
    ELSE lines[1] \o <<" ">> \o JoinSp(Tail(lines))

\* The first k in j..n that satisfies P, or 0: a left-to-right scan
FirstFrom(j, n, P(_)) ==
    IF \E k \in j..n : P(k)
    THEN CHOOSE k \in j..n : P(k) /\ \A m \in j..(k - 1) : ~P(m)
    ELSE 0

\* str.strip()
Strip(s) ==
    LET a == FirstFrom(1, Len(s), LAMBDA k : s[k] \notin Blank)
        b == FirstFrom(1, Len(s), LAMBDA k : s[Len(s) + 1 - k] \notin Blank)
    IN  IF a = 0 THEN <<>> ELSE SubSeq(s, a, Len(s) + 1 - b)

\* " ".join(f90.strip().splitlines()) of the text whose lines are given:
\* stripping the ends and turning every line break into one space.
OneLine(lines) == Strip(JoinSp(lines))

\* [,\s\t]* from position j: the first position not holding a separator
AfterSeps(s, j) ==
    LET k == FirstFrom(j, Len(s), LAMBDA i : s[i] \notin Seps)
    IN  IF k = 0 THEN (IF j > Len(s) THEN j ELSE Len(s) + 1) ELSE k

\* Whether '[,\s\t]*=' matches at position j
SepsThenEq(s, j) ==
    LET k == AfterSeps(s, j) IN k <= Len(s) /\ s[k] = "="

\* ([A-Z][A-Z0-9_\(\):,]*?)[,\s\t]*= tried at i: the lazy *? takes the
\* shortest label after which '[,\s\t]*=' matches; the label's last
\* position, or 0 when the pattern does not match at i.
LabelEnd(s, i) ==
    IF i <= Len(s) /\ s[i] \in Letters
    THEN FirstFrom(i, Len(s),
                   LAMBDA e : /\ \A m \in (i + 1)..e : s[m] \in LabelChars
                              /\ SepsThenEq(s, e + 1))
    ELSE 0

\* (?=[,\s\t]+ label [,\s\t]* =): the look-ahead for another label
LookAhead(s, p) ==
    p <= Len(s) /\ s[p] \in Seps /\ LabelEnd(s, AfterSeps(s, p)) # 0

\* The closing quote of '.*?' or ".*?": the first q >= from holding c, or 0.
FindQuote(s, c, from) == FirstFrom(from, Len(s), LAMBDA q : s[q] = c)

\* Whether '.*?' or ".*?" matches at p: a quote that is closed later
QuotedAt(s, p) == s[p] \in {"'", "\""} /\ FindQuote(s, s[p], p + 1) # 0

\* A bug ValueEnd could have: quoted strings are not stepped over
ValueEnd_Unprotected(s, p) ==
    LET stop == FirstFrom(p, Len(s), LAMBDA k : LookAhead(s, k))
    IN  IF stop = 0 THEN (IF p > Len(s) THEN p ELSE Len(s) + 1) ELSE stop

\* (?:'.*?'|".*?"|.+?)*? up to the look-ahead or $: the first position
\* after the value that starts at p. The lazy repetition stops at the first
\* position where the look-ahead holds; until then it steps over a quoted
\* string as a whole and over any other character alone.
RECURSIVE ValueEnd(_, _)
ValueEnd(s, p) ==
    LET stop == FirstFrom(p, Len(s),
                          LAMBDA k : LookAhead(s, k) \/ QuotedAt(s, k))
    IN  IF stop = 0 THEN (IF p > Len(s) THEN p ELSE Len(s) + 1)
        ELSE IF LookAhead(s, stop) THEN stop
        ELSE ValueEnd(s, FindQuote(s, s[stop], stop + 1) + 1)

\* The leftmost position >= pos where the pattern matches, or 0.
FindLabel(s, pos) == FirstFrom(pos, Len(s), LAMBDA i : LabelEnd(s, i) # 0)

\* re.finditer(_RE_SCAN_PARAMS, f90) from pos: match.groups() of every
\* match, as [fds_label, f90] records.
RECURSIVE ScanParams(_, _)
ScanParams(s, pos) ==
    LET i == FindLabel(s, pos)
    IN  IF i = 0 THEN <<>>
        ELSE LET e == LabelEnd(s, i)
                 p == AfterSeps(s, AfterSeps(s, e + 1) + 1)
                 v == ValueEnd(s, p)
             IN  <<[fds_label |-> SubSeq(s, i, e), f90 |-> SubSeq(s, p, v - 1)]>>
                 \o ScanParams(s, v)

\* from_fds(f90) on a namelist whose fds_params are ps: the list after it.
\* FDSParam(fds_label=label).from_fds(f90=value) is kept as the pair.
FromFdsOf(ps, lines) == ps \o ScanParams(OneLine(lines), 1)

\* ------------------------------------------------- the importing caller

\* The lines of a to_fds() text that start a record
RecordStarts(text) ==
    {k \in 1..Len(text) : text[k] # <<>> /\ text[k][1] = "&"}

\* The last line of the record that starts at line k: continuation lines
\* are the indented ones.
RECURSIVE RecordLast(_, _)
RecordLast(text, k) ==
    IF k < Len(text) /\ text[k + 1] # <<>> /\ text[k + 1][1] = " "
    THEN RecordLast(text, k + 1)
    ELSE k

\* s without its first word (the '&LABEL' of a record's first line)
DropWord(s) ==
    LET b == FirstFrom(1, Len(s), LAMBDA k : s[k] = " ")
    IN  IF b = 0 THEN <<>> ELSE SubSeq(s, b, Len(s))

\* The parameter body of the record that starts at line k, as the caller of
\* from_fds() hands it over: the record's lines without the leading
\* '&LABEL' and without the closing ' /'.
RecordBody(text, k) ==
    LET e == RecordLast(text, k)
        rec == [i \in 1..(e - k + 1) |->
                   LET l0 == text[k + i - 1]
                       l1 == IF i = 1 THEN DropWord(l0) ELSE l0
                   IN  IF i = e - k + 1 THEN SubSeq(l1, 1, Len(l1) - 2) ELSE l1]
    IN  rec

\* ---------------------------------------------------------------- actions

Root == 1

TextOf(r) ==
    IF r.err # "" THEN [kind |-> "raise", err |-> r.err]
    ELSE [kind |-> "str", text |-> r.text]

\* text = root.to_fds()
ToFds ==
    /\ calls < MaxCalls
    /\ LET r == ToFdsOf(heap, Root)
       IN  /\ heap' = r.h
           /\ ret' = TextOf(r)
    /\ calls' = calls + 1
    /\ op' = [name |-> "to_fds"]
    /\ UNCHANGED imported

\* The labels the caller asks get_fds_param for; <<>> is None.
AskedLabels == {<<>>, <<"I", "D">>}

\* p = root.get_fds_param(fds_label, remove)
GetFdsParam ==
    \E fds_label \in AskedLabels, remove \in BOOLEAN :
        LET r == GetFdsParamOf(heap, heap[Root].fds_params, fds_label, remove)
        IN  /\ heap' = [heap EXCEPT ![Root].fds_params = r.ps]
            /\ ret' = r.ret
            /\ op' = [name |-> "get_fds_param", fds_label |-> fds_label,
                      remove |-> remove]
            /\ UNCHANGED <<calls, imported>>

\* n = FDSNamelist(); n.from_fds(body) with the body of one record of the
\* text that to_fds() has just returned
ImportRecord ==
    /\ op.name = "to_fds"
    /\ ret.kind = "str"
    /\ \E k \in RecordStarts(ret.text) :
           /\ imported' = FromFdsOf(<<>>, RecordBody(ret.text, k))
           /\ op' = [name |-> "from_fds", record |-> k]
    /\ ret' = None
    /\ UNCHANGED <<heap, calls>>

Next == ToFds \/ GetFdsParam \/ ImportRecord

\* ------------------------------------------------------ trees to start from

RECURSIVE SeqsUpTo(_, _)
\* All sequences over S of length at most n
SeqsUpTo(S, n) ==
    IF n = 0 THEN {<<>>}
    ELSE LET shorter == SeqsUpTo(S, n - 1)
         IN  shorter \cup {Append(q, x) : q \in shorter, x \in S}

sOB == <<"O", "B">>
sSU == <<"S", "U">>
sID == <<"I", "D">>
sXB == <<"X", "B">>
qA == <<"'", "A", "'">>
qB == <<"'", "B", "'">>
qI == <<"'", "I", "'">>

pID == Param(sID, <<qA>>, << <<"m", "1">> >>)
pS == Param(<<"S">>, <<qI>>, <<>>)
pX == Param(<<"X">>, << <<"1">> >>, << <<"m", "2">> >>)

multiA ==
    Multi(<< <<Param(sID, <<qA>>, <<>>), Param(sXB, << <<"1">>, <<"2">> >>, <<>>)>>,
             <<Param(sID, <<qB>>, <<>>), Param(sXB, << <<"3">>, <<"4">> >>, <<>>)>> >>,
          << <<"m", "3">> >>)

multiE == Multi(<<>>, <<>>)

manyA == Many(<<pS, pID>>, << <<"m", "4">> >>)

\* The nested namelist object heap[2]
Nested == Namelist(sSU, <<pX>>, << <<"m", "5">> >>)

TreeEntries == {pID, pS, None, Ref(2), manyA, multiA, multiE, Other}

TreeLabels == {<<>>, sOB}

OwnMsgs == << <<"m", "0">> >>

InitWith(labels, entries, n) ==
    /\ \E l \in labels, ps \in SeqsUpTo(entries, n) :
           heap = (Root :> Namelist(l, ps, OwnMsgs)) @@ (2 :> Nested)
    /\ calls = 0
    /\ op = [name |-> "new"]
    /\ ret = None
    /\ imported = <<>>

Init == InitWith(TreeLabels, TreeEntries, MaxEntries)

Spec == Init /\ [][Next]_vars

\* Parameters for the line-wrapping cases: a flag, short values, a quoted
\* string holding a separator and '=', a value list too long for one line,
\* one value too long for any line, and a token that ends near column 80.
wF == Param(<<"F">>, <<>>, <<>>)
wID == Param(sID, <<qA>>, <<>>)
wID2 == Param(sID, <<qB>>, <<>>)
wQ == Param(<<"Q">>, << <<"'", "a", ",", " ", "B", "=", "c", "'">> >>, <<>>)
wXB == Param(sXB, [i \in 1..7 |-> Rep("1", 12)], <<>>)
wLong == Param(<<"F", "Y", "I">>, << <<"'">> \o Rep("x", 73) \o <<"'">> >>, <<>>)
wFill == Param(<<"T">>, <<Rep("2", 36), Rep("3", 36)>>, <<>>)

WrapEntries == {wF, wID, wID2, wQ, wXB, wLong, wFill}

MaxParams == 3

InitWrap == InitWith({sOB}, WrapEntries, MaxParams)

SpecWrap == InitWrap /\ [][Next]_vars

\* ------------------------------------------------------------------ claims

\* What the claims say about a tree: its entries with every flatten-group
\* spliced in place, recursively.
RECURSIVE Flat(_)
Flat(ps) ==
    IF ps = <<>> THEN <<>>
    ELSE IF Head(ps).kind = "many" THEN Flat(Head(ps).items) \o Flat(Tail(ps))
    ELSE <<Head(ps)>> \o Flat(Tail(ps))

OfKind(ps, kind) == SelectSeq(ps, LAMBDA e : e.kind = kind)

\* 'LABEL' or 'LABEL=v1,v2,...'
Token(p) ==
    IF p.vs = <<>> THEN p.fds_label ELSE p.fds_label \o <<"=">> \o Join(p.vs)

\* The words of a line, split at spaces
RECURSIVE WordsFrom(_, _)
WordsFrom(s, i) ==
    LET a == FirstFrom(i, Len(s), LAMBDA k : s[k] # " ")
    IN  IF a = 0 THEN <<>>
        ELSE LET b == FirstFrom(a, Len(s), LAMBDA k : s[k] = " ")
             IN  IF b = 0 THEN <<SubSeq(s, a, Len(s))>>
                 ELSE <<SubSeq(s, a, b - 1)>> \o WordsFrom(s, b)

Words(s) == WordsFrom(s, 1)

Exported == op.name = "to_fds" /\ ret.kind = "str"

\* The records of the root in the returned text, by their first lines
OwnStarts ==
    {k \in RecordStarts(ret.text) :
        Words(ret.text[k])[1] = <<"&">> \o heap[Root].fds_label}

\* The k-th smallest element of a set of numbers
RECURSIVE Nth(_, _)
Nth(S, k) ==
    LET m == CHOOSE x \in S : \A y \in S : x <= y
    IN  IF k = 1 THEN m ELSE Nth(S \ {m}, k - 1)

\* The words of the record that starts at line k
RecordWords(k) ==
    Cat([i \in 1..(RecordLast(ret.text, k) - k + 1) |->
            Words(ret.text[k + i - 1])])

\* C1: two to_fds() calls in succession on the same namelist, with nothing
\* done in between, return the same text.
C1_RepeatedExportIsStable ==
    [][(op.name = "to_fds" /\ op'.name = "to_fds") => ret' = ret]_vars

\* C3: a namelist whose entries, flatten-groups spliced in, hold two
\* Multi-groups makes to_fds() raise instead of returning text.
C3_TwoMultisRaise ==
    (op.name = "to_fds"
        /\ Len(OfKind(Flat(heap[Root].fds_params), "multi")) >= 2)
    => ret.kind = "raise"

\* C7: a namelist holding a Multi-group with no sub-group makes to_fds()
\* raise instead of returning text.
C7_EmptyMultiRaises ==
    (op.name = "to_fds"
        /\ \E i \in 1..Len(Flat(heap[Root].fds_params)) :
               LET e == Flat(heap[Root].fds_params)[i]
               IN  e.kind = "multi" /\ e.groups = <<>>)
    => ret.kind = "raise"

\* The case of C4: a labelled root with no Multi-group, or with one that
\* has at least one sub-group, after a to_fds() that returned text.
C4_Case ==
    /\ Exported
    /\ heap[Root].fds_label # <<>>
    /\ LET ms == OfKind(Flat(heap[Root].fds_params), "multi")
       IN  ms = <<>> \/ (Len(ms) = 1 /\ ms[1].groups # <<>>)

\* The parameter lists C4 expects, one per record
C4_Expected ==
    LET flat == Flat(heap[Root].fds_params)
        ps == OfKind(flat, "param")
        ms == OfKind(flat, "multi")
    IN  IF ms = <<>> THEN <<ps>>
        ELSE LET first == ms[1].groups[1]
                 labels == {first[i].fds_label : i \in 1..Len(first)}
                 kept == SelectSeq(ps, LAMBDA p : p.fds_label \notin labels)
             IN  [i \in 1..Len(ms[1].groups) |-> kept \o ms[1].groups[i]]

\* C4: with a Multi-group of N sub-groups the text holds N records of the
\* root, the i-th made of the invariant parameters not shadowed by the
\* first sub-group's labels, then the i-th sub-group's parameters, in
\* order; without a Multi-group, one record of all invariant parameters.
C4_MultiExpansion ==
    C4_Case =>
        /\ Cardinality(OwnStarts) = Len(C4_Expected)
        /\ \A i \in 1..Len(C4_Expected) :
               RecordWords(Nth(OwnStarts, i))
                   = <<<<"&">> \o heap[Root].fds_label>>
                     \o [j \in 1..Len(C4_Expected[i]) |-> Token(C4_Expected[i][j])]
                     \o << <<"/">> >>

\* C4's case with two sub-groups, a shadowed ID and a kept S
C4_Witness ==
    /\ C4_Case
    /\ Len(C4_Expected) = 2
    /\ \E i \in 1..Len(Flat(heap[Root].fds_params)) :
           Flat(heap[Root].fds_params)[i] = pID
    /\ Len(C4_Expected[1]) = 3

\* The messages of the tree under heap[id], in entry order: the namelist's
\* own, those of its parameters, flatten-groups and Multi-group, and those
\* of its nested namelists.
RECURSIVE TreeMsgs(_, _)
RECURSIVE EntriesMsgs(_, _)
TreeMsgs(h, id) == h[id].msgs \o EntriesMsgs(h, h[id].fds_params)

EntriesMsgs(h, ps) ==
    IF ps = <<>> THEN <<>>
    ELSE LET e == Head(ps)
             mine == CASE e.kind = "param" -> e.msgs
                       [] e.kind = "multi" -> e.msgs
                       [] e.kind = "many" -> EntriesMsgs(h, e.items) \o e.msgs
                       [] e.kind = "namelist" -> TreeMsgs(h, e.id)
                       [] OTHER -> <<>>
         IN  mine \o EntriesMsgs(h, Tail(ps))

\* The messages the root itself prints: all but the nested namelists' own
RootMsgs(h) ==
    h[Root].msgs
        \o EntriesMsgs(h, SelectSeq(Flat(h[Root].fds_params),
                                    LAMBDA e : e.kind # "namelist"))

Distinct(q) == \A i, j \in 1..Len(q) : q[i] = q[j] => i = j

Occurrences(text, line) == Cardinality({k \in 1..Len(text) : text[k] = line})

\* C10: the text of one to_fds() call on a tree of distinct messages holds
\* each message as exactly one line '! <text>', and the root's comment
\* lines come before its first record.
C10_EachMessageOnce ==
    [][(op'.name = "to_fds" /\ calls = 0 /\ ret'.kind = "str"
            /\ Distinct(TreeMsgs(heap, Root)))
        => /\ \A i \in 1..Len(TreeMsgs(heap, Root)) :
                  Occurrences(ret'.text, <<"!", " ">> \o TreeMsgs(heap, Root)[i]) = 1
           /\ \A i \in 1..Len(RootMsgs(heap)), k \in 1..Len(ret'.text) :
                  (ret'.text[k] = <<"!", " ">> \o RootMsgs(heap)[i]
                      /\ heap[Root].fds_label # <<>>)
                  => \A r \in {x \in RecordStarts(ret'.text) :
                                 Words(ret'.text[x])[1]
                                     = <<"&">> \o heap[Root].fds_label} : k < r]_vars

\* C2: every line of every record that to_fds() emits for a labelled
\* namelist is at most 80 characters long, the closing ' /' included.
C2_LinesWithin80 ==
    (Exported /\ heap[Root].fds_label # <<>>)
    => \A k \in 1..Len(ret.text) :
           (ret.text[k] # <<>> /\ ret.text[k][1] # "!")
           => Len(ret.text[k]) <= MAXLEN

\* The record loop before and after the k-th parameter of the root's one
\* record, and the lines the parameter added (without the closing ' /').
StBefore(k) ==
    EmitAll(RecordStart(heap[Root].fds_label),
            SubSeq(heap[Root].invariant_ps, 1, k - 1))

StAfter(k) == EmitParam(StBefore(k), heap[Root].invariant_ps[k])

ParamLines(k) ==
    LET b == StBefore(k)
        a == StAfter(k)
    IN  IF a.lines = b.lines
        THEN <<SubSeq(a.line, Len(b.line) + 1, Len(a.line))>>
        ELSE SubSeq(a.lines, Len(b.lines) + 2, Len(a.lines)) \o <<a.line>>

Unindent(s) ==
    LET a == FirstFrom(1, Len(s), LAMBDA k : s[k] # " ")
    IN  IF a = 0 THEN <<>> ELSE SubSeq(s, a, Len(s))

\* A record of parameters only: what C2, C5 and C9 look at
OneRecord ==
    /\ Exported
    /\ heap[Root].fds_label # <<>>
    /\ heap[Root].multi_ps = None
    /\ ret.text = MessageLines(heap[Root].msgs)
                    \o FormatRecord(heap[Root].fds_label, heap[Root].invariant_ps)

\* C5: a parameter whose token cannot fit alone on a 6-space line is split
\* at commas only: its lines, unindented and concatenated, are its token,
\* each continuation line starts with exactly 8 spaces, no comma trails
\* the last value, and no line exceeds 80 columns.
C5_SplitAtCommas ==
    OneRecord =>
        \A k \in 1..Len(heap[Root].invariant_ps) :
            LET p == heap[Root].invariant_ps[k]
                ls == ParamLines(k)
            IN  (p.vs # <<>>
                    /\ 6 + Len(p.fds_label) + 1 + Len(Join(p.vs)) > MAXLEN)
                => /\ Cat([i \in 1..Len(ls) |-> Unindent(ls[i])]) = Token(p)
                   /\ \A i \in 2..Len(ls) :
                          /\ Len(ls[i]) > 8
                          /\ SubSeq(ls[i], 1, 8) = Indent8
                          /\ ls[i][9] # " "
                   /\ ls[Len(ls)][Len(ls[Len(ls)])] # ","
                   /\ \A i \in 1..Len(ls) : Len(ls[i]) <= MAXLEN

\* C9: every parameter of a record goes on the current line, after one
\* space, when line + 1 + token fits in 80 columns, and only otherwise on
\* a new 6-space line; also the parameter after a split value list.
C9_GreedyPacking ==
    OneRecord =>
        \A k \in 1..Len(heap[Root].invariant_ps) :
            LET p == heap[Root].invariant_ps[k]
                b == StBefore(k)
                a == StAfter(k)
            IN  IF Len(b.line) + 1 + Len(Token(p)) <= MAXLEN
                THEN a.lines = b.lines /\ a.line = b.line \o <<" ">> \o Token(p)
                ELSE /\ Len(a.lines) > Len(b.lines)
                     /\ a.lines[Len(b.lines) + 1] = b.line
                     /\ LET first == (a.lines \o <<a.line>>)[Len(b.lines) + 2]
                        IN  SubSeq(first, 1, 6 + Len(p.fds_label))
                                = Indent6 \o p.fds_label

\* The case of C6: from_fds() has just read the record that to_fds() made
\* of a labelled root (in SpecWrap every entry is a parameter).
Imported == op.name = "from_fds" /\ heap[Root].fds_label # <<>>

AfterBlanks(s, j) ==
    LET k == FirstFrom(j, Len(s), LAMBDA i : s[i] \notin Blank)
    IN  IF k = 0 THEN Len(s) + 1 ELSE k

\* Whether raw[pos..] is the values vs in order, a comma after each but
\* the last, with nothing but blanks between a comma and the next value
RECURSIVE IsValueList(_, _, _)
IsValueList(raw, pos, vs) ==
    LET e == pos + Len(vs[1]) - 1
    IN  /\ e <= Len(raw)
        /\ SubSeq(raw, pos, e) = vs[1]
        /\ IF Len(vs) = 1 THEN e = Len(raw)
           ELSE /\ e < Len(raw)
                /\ raw[e + 1] = ","
                /\ IsValueList(raw, AfterBlanks(raw, e + 2), Tail(vs))

\* C6: parsing the body of the record made of the root's parameters gives
\* the same labels in the same order, each with the raw value text that was
\* formatted; flags, quoted strings and wrapped records included.
C6_RoundTrip ==
    Imported =>
        LET ps == heap[Root].fds_params
        IN  /\ Len(imported) = Len(ps)
            /\ \A i \in 1..Len(ps) :
                   /\ imported[i].fds_label = ps[i].fds_label
                   /\ imported[i].f90 = Join(ps[i].vs)

\* C6 as amended: when every parameter has a value, the labels come back
\* in order and each raw value text is the formatted values joined by
\* commas, with blanks after a comma where the value list was wrapped.
C6_RoundTripValued ==
    (Imported /\ \A i \in 1..Len(heap[Root].fds_params) :
                     heap[Root].fds_params[i].vs # <<>>)
    => LET ps == heap[Root].fds_params
       IN  /\ Len(imported) = Len(ps)
           /\ \A i \in 1..Len(ps) :
                  /\ imported[i].fds_label = ps[i].fds_label
                  /\ IsValueList(imported[i].f90, 1, ps[i].vs)

\* C6's case: a quoted string holding ', B=' and a value list wrapped over
\* two lines were formatted and read back.
C6_Witness ==
    /\ Imported
    /\ Len(imported) = 3
    /\ heap[Root].fds_params[1] = wQ
    /\ heap[Root].fds_params[2] = wXB
    /\ imported[1].f90 = wQ.vs[1]
    /\ imported[2].f90 # Join(wXB.vs)
    /\ imported[3].fds_label = sID

\* What C8 says get_fds_param(label, remove) returns and leaves behind on
\* the parameter list ps
C8_Post(ps, label, remove, r, ps2) ==
    LET hits == {i \in 1..Len(ps) : ps[i].fds_label = label}
    IN  IF hits = {} THEN r = None /\ ps2 = ps
        ELSE LET i == CHOOSE x \in hits : \A y \in hits : x <= y
             IN  /\ r = ps[i]
                 /\ ps2 = IF remove
                          THEN SubSeq(ps, 1, i - 1) \o SubSeq(ps, i + 1, Len(ps))
                          ELSE ps

\* C8: get_fds_param returns the first parameter with the given label and,
\* with remove, takes exactly that one out, the others keeping their
\* order; with no such parameter it returns None and changes nothing.
C8_GetFirstByLabel ==
    [][op'.name = "get_fds_param"
        => C8_Post(heap[Root].fds_params, op'.fds_label, op'.remove,
                   ret', heap'[Root].fds_params)]_vars

\* C8 as amended: the same, for a non-empty label.
C8_GetFirstByGivenLabel ==
    [][(op'.name = "get_fds_param" /\ op'.fds_label # <<>>)
        => C8_Post(heap[Root].fds_params, op'.fds_label, op'.remove,
                   ret', heap'[Root].fds_params)]_vars

\* C8's case: the first of two ID parameters was taken out of three
\* parameters, the other two left in order.
C8_Witness ==
    /\ op.name = "get_fds_param"
    /\ op.remove
    /\ op.fds_label = sID
    /\ ret = wID
    /\ heap[Root].fds_params = <<wF, wID2>>

====
